---- MODULE Spec2Model ----
(***************************************************************************)
(* The report script src/app.py as a state machine.                        *)
(*                                                                         *)
(* One run of the script is the sequence of its top-level statements:      *)
(*   line 60        data = get_data()          (memoized by st.cache_data) *)
(*   line 61        df = data[dataset_status == "Primary"].copy()          *)
(*   lines 80-93    Group Name x Dataset Type aggregation (never rendered) *)
(*   lines 108-132  Dataset Type x Group Name aggregation and its chart    *)
(*   lines 144-186  Dataset Type x Status aggregation and its chart        *)
(*   lines 190-203  the status-change table                                *)
(* Streamlit runs the script again on every page interaction, in the same  *)
(* process, so the memoization cache outlives a run.                       *)
(*                                                                         *)
(* A Python string is a sequence of one-character strings; a DataFrame is  *)
(* its column labels and its rows (tuples, one value per column); a pivot  *)
(* table is its index labels, its column labels and its cells.             *)
(***************************************************************************)
EXTENDS Integers, Sequences, FiniteSets, TLC

VARIABLES
    pc,         \* position of the running script
    runs,       \* number of script runs started in this process
    gets,       \* number of HTTP GETs issued by requests.get (line 27)
    response,   \* what the HTTP GET behind this run's table met
    cache,      \* st.cache_data's entry for get_data (line 16)
    data,       \* the script global `data` (line 60)
    df,         \* the script global `df` (lines 61, 80, 108, 144, 190)
    agg_df,     \* the script global `agg_df` (lines 85, 111, 154)
    rendered,   \* the pivot tables handed to px.bar / st.plotly_chart, in order
    error,      \* the uncaught exception that ended the run, if any
    arg,        \* the argument of one determine_type call taken alone
    label       \* what that call returned

vars == <<pc, runs, gets, response, cache, data, df, agg_df, rendered, error,
          arg, label>>

scriptVars == <<pc, runs, gets, response, cache, data, df, agg_df, rendered, error>>

----------------------------------------------------------------------------
(* Bounds *)

MaxRecords == 3

MaxRuns == 2

MaxLen == 3

----------------------------------------------------------------------------
(* Strings *)

\* The characters of the strings that occur, with their code points (the
\* order Python and pandas compare strings by).
Chars == {"[", "]", "a", "b"}

Code(c) ==
    CASE c = "A" -> 65 [] c = "C" -> 67 [] c = "E" -> 69 [] c = "I" -> 73
      [] c = "M" -> 77 [] c = "N" -> 78 [] c = "Q" -> 81 [] c = "T" -> 84
      [] c = "[" -> 91 [] c = "]" -> 93
      [] c = "a" -> 97 [] c = "b" -> 98 [] c = "e" -> 101 [] c = "w" -> 119

Strings(n) == UNION {[1..k -> Chars] : k \in 0..n}

Min(a, b) == IF a < b THEN a ELSE b

\* s < t for Python strings: at the first position where they differ the
\* smaller code point wins, and a proper prefix is smaller.
StrLess(s, t) ==
    \E i \in 1..(Min(Len(s), Len(t)) + 1) :
        /\ \A j \in 1..(i - 1) : s[j] = t[j]
        /\ \/ i > Len(s) /\ i <= Len(t)
           \/ i <= Len(s) /\ i <= Len(t) /\ Code(s[i]) < Code(t[i])

\* The labels of S in ascending order.
RECURSIVE Sorted(_)
Sorted(S) ==
    IF S = {} THEN <<>>
    ELSE LET m == CHOOSE x \in S : \A y \in S : x = y \/ StrLess(x, y)
         IN  <<m>> \o Sorted(S \ {m})

\* c in s
Contains(s, c) == \E i \in 1..Len(s) : s[i] = c

----------------------------------------------------------------------------
(* Classifier *)

determine_type_ordered(s) ==
    IF \E i, j \in 1..Len(s) : i < j /\ s[i] = "[" /\ s[j] = "]"
    THEN "Derived" ELSE "Primary"

determine_type(s) ==
    IF Contains(s, "[") /\ Contains(s, "]") THEN "Derived" ELSE "Primary"

----------------------------------------------------------------------------
(* The endpoint *)

\* What pandas puts where a record has no value for a column.
NaN == <<"NaN">>

\* What line 201 assigns.
None == <<"None">>

DatasetTypes == {<<"a">>, <<"b">>, <<"a", "[", "b", "]">>}

GroupNames == {<<"T", "M", "C">>, <<"I", "E", "C">>}

Statuses == {<<"N", "e", "w">>, <<"Q", "A">>}

\* The objects of the "data" array: a record may lack dataset_type.
Records ==
    [dataset_type : DatasetTypes, group_name : GroupNames, status : Statuses]
    \cup [group_name : GroupNames, status : Statuses]

\* What an HTTP GET can meet: no connection, a non-success status, a body
\* that is not JSON, a JSON object without "data", or the records.
FailureKinds == {"network_error", "http_error", "bad_json", "no_data_key"}

Responses ==
    [kind : FailureKinds, records : {<<>>}]
    \cup [kind : {"ok"},
          records : UNION {[1..n -> Records] : n \in 0..MaxRecords}]

NoResponse == [kind |-> "none", records |-> <<>>]

----------------------------------------------------------------------------
(* DataFrames *)

EmptyDataFrame == [columns |-> <<>>, rows |-> <<>>]

HasCol(d, name) == \E i \in 1..Len(d.columns) : d.columns[i] = name

Col(d, name) == CHOOSE i \in 1..Len(d.columns) : d.columns[i] = name

FieldOrder == <<"dataset_type", "group_name", "status">>

\* pd.DataFrame(json_data["data"]): the columns are the keys that occur, and
\* a record without a key gets NaN there.
DataFrame(records) ==
    LET Occurs(f) == \E i \in 1..Len(records) : f \in DOMAIN records[i]
        cols == SelectSeq(FieldOrder, Occurs)
    IN  [columns |-> cols,
         rows |-> [i \in 1..Len(records) |->
                     [j \in 1..Len(cols) |->
                        IF cols[j] \in DOMAIN records[i]
                        THEN records[i][cols[j]] ELSE NaN]]]

\* df[name] = values: a new last column.
WithColumn(d, name, values) ==
    [columns |-> Append(d.columns, name),
     rows |-> [i \in 1..Len(d.rows) |-> Append(d.rows[i], values[i])]]

rename_select(d, mapping) ==
    LET Kept(i) == d.columns[i] \in DOMAIN mapping
        idx == SelectSeq([i \in 1..Len(d.columns) |-> i], Kept)
    IN  [columns |-> [k \in 1..Len(idx) |-> mapping[d.columns[idx[k]]]],
         rows |-> [r \in 1..Len(d.rows) |->
                     [k \in 1..Len(idx) |-> d.rows[r][idx[k]]]]]

\* df.rename(columns=mapping, inplace=True): labels change, values stay;
\* a label the mapping names and the table lacks is ignored.
rename(d, mapping) ==
    [d EXCEPT !.columns =
        [j \in 1..Len(d.columns) |->
            IF d.columns[j] \in DOMAIN mapping
            THEN mapping[d.columns[j]] ELSE d.columns[j]]]

----------------------------------------------------------------------------
(* Fetcher: get_data, lines 16-49 *)

\* issubclass(exc, cls) for the exceptions get_data can meet.
IsInstance(exc, cls) ==
    \/ exc = cls
    \/ exc \in {"ConnectionError", "HTTPError"} /\ cls = "RequestException"
    \/ exc = "JSONDecodeError" /\ cls = "ValueError"

HandledWithoutKeyError(exc) ==
    \/ IsInstance(exc, "ValueError")
    \/ IsInstance(exc, "RequestException")

\* The except clauses of lines 44 and 47.
Handled(exc) ==
    \/ IsInstance(exc, "ValueError")
    \/ IsInstance(exc, "KeyError")
    \/ IsInstance(exc, "RequestException")

\* Lines 33-36: the table of the records with its dataset_status column.
Classified(records) ==
    LET d == DataFrame(records)
        c == Col(d, "dataset_type")
    IN  WithColumn(d, "dataset_status",
                   [i \in 1..Len(d.rows) |-> determine_type(d.rows[i][c])])

\* The exception the try block (lines 27-43) raises on a response, or
\* "none".  determine_type applied to NaN evaluates "[" in nan, a TypeError.
Raised(resp) ==
    CASE resp.kind = "network_error" -> "ConnectionError"
      [] resp.kind = "http_error" -> "HTTPError"
      [] resp.kind = "bad_json" -> "JSONDecodeError"
      [] resp.kind = "no_data_key" -> "KeyError"
      [] OTHER ->
            LET d == DataFrame(resp.records)
            IN  IF ~HasCol(d, "dataset_type") THEN "KeyError"
                ELSE IF \E i \in 1..Len(d.rows) :
                            d.rows[i][Col(d, "dataset_type")] = NaN
                     THEN "TypeError"
                     ELSE "none"

\* The body of get_data on a response: the table it returns, or the
\* exception that leaves it.
get_data(resp) ==
    LET exc == Raised(resp)
    IN  IF exc = "none"
        THEN [exc |-> "none", value |-> Classified(resp.records)]
        ELSE IF Handled(exc)
        THEN [exc |-> "none", value |-> EmptyDataFrame]
        ELSE [exc |-> exc, value |-> EmptyDataFrame]

\* st.cache_data (line 16): one entry, get_data having no arguments.
NoCache == [hit |-> FALSE, value |-> EmptyDataFrame]

CacheNever(c) == FALSE

CacheHit(c) == c.hit

----------------------------------------------------------------------------
(* Filter: lines 61 and 190 *)

SelectAll(d) == [columns |-> d.columns, rows |-> d.rows]

\* data[data["dataset_status"] == "Primary"].copy()
SelectPrimary(d) ==
    LET IsPrimary(row) == row[Col(d, "dataset_status")] = "Primary"
    IN  [columns |-> d.columns, rows |-> SelectSeq(d.rows, IsPrimary)]

----------------------------------------------------------------------------
(* Aggregator: groupby / size / unstack / sort, lines 85-93, 111-114, 154-162 *)

EmptySeries == [k \in {} |-> 0]

\* .groupby([k1, k2]).size(): the number of rows of each pair of values
\* that occurs, counted row by row.
RECURSIVE CountRows(_, _, _, _)
CountRows(rows, c1, c2, n) ==
    IF n = 0 THEN EmptySeries
    ELSE LET prev == CountRows(rows, c1, c2, n - 1)
             key == <<rows[n][c1], rows[n][c2]>>
         IN  IF key \in DOMAIN prev
             THEN [prev EXCEPT ![key] = @ + 1]
             ELSE prev @@ (key :> 1)

size(d, k1, k2) == CountRows(d.rows, Col(d, k1), Col(d, k2), Len(d.rows))

\* .unstack(fill_value): the first level becomes the index and the second
\* the columns, both in ascending order; a pair that does not occur gets
\* fill_value.
unstack(series, fill_value) ==
    LET idx == {k[1] : k \in DOMAIN series}
        cols == {k[2] : k \in DOMAIN series}
    IN  [index |-> Sorted(idx),
         columns |-> Sorted(cols),
         cell |-> [k \in idx \X cols |->
                     IF k \in DOMAIN series THEN series[k] ELSE fill_value]]

\* agg_df.sum(axis=1) for one index label: the sum over the columns.
RECURSIVE RowSum(_, _, _)
RowSum(m, r, n) ==
    IF n = 0 THEN 0 ELSE RowSum(m, r, n - 1) + m.cell[<<r, m.columns[n]>>]

Total(m, r) == RowSum(m, r, Len(m.columns))

\* Lines 88-90 and 157-159: the Total column, sort_values(by="Total",
\* ascending=False), drop the column.  sort_values sorts with its default
\* kind, quicksort, which keeps no order among equal totals: every order of
\* the rows with non-increasing totals is a possible result.
sort_by_total(m) ==
    LET n == Len(m.index)
        perms == {p \in [1..n -> 1..n] : \A i, j \in 1..n : p[i] = p[j] => i = j}
    IN  {[m EXCEPT !.index = [i \in 1..n |-> m.index[p[i]]]] :
            p \in {q \in perms :
                     \A i \in 1..(n - 1) :
                        Total(m, m.index[q[i]]) >= Total(m, m.index[q[i + 1]])}}

\* agg_df.sort_index(axis=1)
sort_index_columns(m) ==
    [m EXCEPT !.columns = Sorted({m.columns[j] : j \in 1..Len(m.columns)})]

----------------------------------------------------------------------------
(* The script *)

\* A global name the run has not bound yet.
Unbound == [unbound |-> TRUE]

NoError == [exc |-> "none", line |-> 0]

GroupColumns == [dataset_type |-> "Dataset Type", group_name |-> "Group Name"]

StatusColumns ==
    [dataset_type |-> "Dataset Type", group_name |-> "Group Name",
     status |-> "Status"]

TableColumns ==
    [hubmap_id |-> "HuBMAP ID", dataset_type |-> "Dataset Type",
     group_name |-> "Group Name", uuid |-> "UUID"]

Init ==
    /\ pc = "start"
    /\ runs = 1
    /\ gets = 0
    /\ response = NoResponse
    /\ cache = NoCache
    /\ data = Unbound
    /\ df = Unbound
    /\ agg_df = Unbound
    /\ rendered = <<>>
    /\ error = NoError
    /\ arg = <<>>
    /\ label = "none"

\* An uncaught exception ends the run; Streamlit shows it in place of the
\* rest of the page.
Crash(exc, line) ==
    /\ pc' = "crashed"
    /\ error' = [exc |-> exc, line |-> line]

\* Line 60, through st.cache_data (line 16): a hit returns the stored table
\* and the body does not run; a miss runs the body on what the HTTP GET
\* meets and stores what it returns.  An exception leaving the body is not
\* stored.
GetData ==
    /\ pc = "start"
    /\ IF CacheHit(cache)
       THEN /\ data' = cache.value
            /\ pc' = "fetched"
            /\ UNCHANGED <<gets, response, cache, error>>
       ELSE \E resp \in Responses :
                LET out == get_data(resp)
                IN  /\ gets' = gets + 1
                    /\ response' = resp
                    /\ IF out.exc = "none"
                       THEN /\ data' = out.value
                            /\ cache' = [hit |-> TRUE, value |-> out.value]
                            /\ pc' = "fetched"
                            /\ UNCHANGED error
                       ELSE /\ Crash(out.exc, 36)
                            /\ UNCHANGED <<data, cache>>
    /\ UNCHANGED <<runs, df, agg_df, rendered, arg, label>>

\* Line 61: data["dataset_status"] is a KeyError on a table without that
\* column.
FilterPrimary ==
    /\ pc = "fetched"
    /\ IF HasCol(data, "dataset_status")
       THEN /\ df' = SelectPrimary(data)
            /\ pc' = "filtered"
            /\ UNCHANGED error
       ELSE /\ Crash("KeyError", 61)
            /\ UNCHANGED df
    /\ UNCHANGED <<runs, gets, response, cache, data, agg_df, rendered, arg, label>>

\* Lines 80-93: rename in place, count by Group Name and Dataset Type, order
\* the rows by total and the columns by label.  The result is bound to
\* agg_df and replaced at line 111 before anything reads it.
AggregateGroupByType ==
    /\ pc = "filtered"
    /\ LET d == rename(df, GroupColumns)
       IN  /\ df' = d
           /\ IF HasCol(d, "Group Name") /\ HasCol(d, "Dataset Type")
              THEN /\ \E m \in sort_by_total(
                                 unstack(size(d, "Group Name", "Dataset Type"), 0)) :
                        agg_df' = sort_index_columns(m)
                   /\ pc' = "aggregated"
                   /\ UNCHANGED error
              ELSE /\ Crash("KeyError", 85)
                   /\ UNCHANGED agg_df
    /\ UNCHANGED <<runs, gets, response, cache, data, rendered, arg, label>>

\* Lines 108-132: rename in place, count by Dataset Type and Group Name,
\* order the columns by label, hand the table to the chart.
ChartTypeByGroup ==
    /\ pc = "aggregated"
    /\ LET d == rename(df, GroupColumns)
       IN  /\ df' = d
           /\ IF HasCol(d, "Dataset Type") /\ HasCol(d, "Group Name")
              THEN /\ agg_df' = sort_index_columns(
                                    unstack(size(d, "Dataset Type", "Group Name"), 0))
                   /\ rendered' = Append(rendered, agg_df')
                   /\ pc' = "chart1"
                   /\ UNCHANGED error
              ELSE /\ Crash("KeyError", 111)
                   /\ UNCHANGED <<agg_df, rendered>>
    /\ UNCHANGED <<runs, gets, response, cache, data, arg, label>>

\* Lines 144-186: rename in place, count by Dataset Type and Status, order
\* the rows by total and the columns by label, hand the table to the chart.
ChartTypeByStatus ==
    /\ pc = "chart1"
    /\ LET d == rename(df, StatusColumns)
       IN  /\ df' = d
           /\ IF HasCol(d, "Dataset Type") /\ HasCol(d, "Status")
              THEN /\ \E m \in sort_by_total(
                                 unstack(size(d, "Dataset Type", "Status"), 0)) :
                        /\ agg_df' = sort_index_columns(m)
                        /\ rendered' = Append(rendered, agg_df')
                   /\ pc' = "chart2"
                   /\ UNCHANGED error
              ELSE /\ Crash("KeyError", 154)
                   /\ UNCHANGED <<agg_df, rendered>>
    /\ UNCHANGED <<runs, gets, response, cache, data, arg, label>>

\* Lines 190-203: df is bound to a new filtered copy, renamed, and gets a
\* "Status Change" column of None; the script then ends.
StatusChangeTable ==
    /\ pc = "chart2"
    /\ LET d == rename(SelectPrimary(data), TableColumns)
       IN  df' = WithColumn(d, "Status Change", [i \in 1..Len(d.rows) |-> None])
    /\ pc' = "done"
    /\ UNCHANGED <<runs, gets, response, cache, data, agg_df, rendered, error,
                   arg, label>>

\* Streamlit runs the script again from the top, in the same process: the
\* script's globals are new, the cache of st.cache_data is kept (and with
\* it the response its table was built from).
Rerun ==
    /\ pc \in {"done", "crashed"}
    /\ runs < MaxRuns
    /\ pc' = "start"
    /\ runs' = runs + 1
    /\ data' = Unbound
    /\ df' = Unbound
    /\ agg_df' = Unbound
    /\ rendered' = <<>>
    /\ error' = NoError
    /\ response' = IF cache.hit THEN response ELSE NoResponse
    /\ UNCHANGED <<gets, cache, arg, label>>

Next ==
    \/ GetData
    \/ FilterPrimary
    \/ AggregateGroupByType
    \/ ChartTypeByGroup
    \/ ChartTypeByStatus
    \/ StatusChangeTable
    \/ Rerun

Spec == Init /\ [][Next]_vars

----------------------------------------------------------------------------
(* One determine_type call taken alone, on every string up to MaxLen *)

InitClassify ==
    /\ pc = "start"
    /\ runs = 1
    /\ gets = 0
    /\ response = NoResponse
    /\ cache = NoCache
    /\ data = Unbound
    /\ df = Unbound
    /\ agg_df = Unbound
    /\ rendered = <<>>
    /\ error = NoError
    /\ arg \in Strings(MaxLen)
    /\ label = "none"

Classify ==
    /\ label = "none"
    /\ label' = determine_type(arg)
    /\ UNCHANGED <<scriptVars, arg>>

NextClassify == Classify

SpecClassify == InitClassify /\ [][NextClassify]_vars

----------------------------------------------------------------------------
(* What the claims read, computed from the fetched records themselves *)

\* The number of occurrences of c in s.
RECURSIVE Count(_, _)
Count(s, c) ==
    IF s = <<>> THEN 0
    ELSE (IF Head(s) = c THEN 1 ELSE 0) + Count(Tail(s), c)

Bracketed(s) == Count(s, "[") >= 1 /\ Count(s, "]") >= 1

Fetched == response.records

HasType(i) == "dataset_type" \in DOMAIN Fetched[i]

\* The positions of the fetched records that are Primary.
PrimaryAt == {i \in 1..Len(Fetched) : HasType(i) /\ ~Bracketed(Fetched[i].dataset_type)}

IsEmptyPivot(m) == m.index = <<>> /\ m.columns = <<>>

Labels(seq) == {seq[i] : i \in 1..Len(seq)}

\* The view k of the report: 1 is Dataset Type x Group Name, 2 is Dataset
\* Type x Status.
ColumnField(k) == IF k = 1 THEN "group_name" ELSE "status"

\* The position at which a value of a field is first seen among the Primary
\* records.
FirstSeen(field, v) ==
    CHOOSE i \in PrimaryAt :
        /\ Fetched[i][field] = v
        /\ \A j \in PrimaryAt : Fetched[j][field] = v => i <= j

Prefix(s, t) == Len(s) <= Len(t) /\ \A i \in 1..Len(s) : s[i] = t[i]

FetchFailed == response.kind \in FailureKinds

----------------------------------------------------------------------------
(* Claims *)

\* C1: when the fetch fails (no connection, non-success status, body that is
\* not JSON, JSON without "data"), the run of the script does not end in an
\* uncaught exception, and when it ends it has rendered both charts, each
\* with no rows and no columns.
C1_FailedFetchRendersEmptyReport ==
    FetchFailed =>
        /\ pc # "crashed"
        /\ pc = "done" =>
              /\ Len(rendered) = 2
              /\ \A k \in 1..Len(rendered) : IsEmptyPivot(rendered[k])

\* C2: on a non-success status, a body that is not JSON, or a JSON object
\* without "data", get_data returns the empty table and no exception leaves
\* it.
C2_FailureYieldsEmptyTable ==
    (pc # "start" /\ response.kind \in {"http_error", "bad_json", "no_data_key"}) =>
        /\ data = EmptyDataFrame
        /\ error.line # 36

C2_Witness ==
    /\ pc = "fetched"
    /\ response.kind = "no_data_key"
    /\ data = EmptyDataFrame
    /\ error = NoError

\* C3: determine_type(s) is "Derived" exactly when s holds at least one "["
\* and at least one "]", in any order, and is "Primary" otherwise.
C3_DerivedIffBothBrackets ==
    label # "none" =>
        /\ label \in {"Derived", "Primary"}
        /\ label = "Derived" <=> Bracketed(arg)

C3_Witness ==
    /\ arg = <<"]", "a", "[">>
    /\ label = "Derived"

C5_RenderedRowsDescendByTotal ==
    \A k \in 1..Len(rendered) :
        \A i \in 1..(Len(rendered[k].index) - 1) :
            Total(rendered[k], rendered[k].index[i])
                >= Total(rendered[k], rendered[k].index[i + 1])

\* C6: in the pivot table that is sorted by total and rendered (the Status
\* view, lines 154-159), two rows with equal totals are in the order in
\* which their Dataset Types are first seen in the fetched records.
C6_TiesInFirstSeenOrder ==
    Len(rendered) = 2 =>
        \A i, j \in 1..Len(rendered[2].index) :
            (i < j /\ Total(rendered[2], rendered[2].index[i])
                         = Total(rendered[2], rendered[2].index[j]))
                => FirstSeen("dataset_type", rendered[2].index[i])
                      < FirstSeen("dataset_type", rendered[2].index[j])

\* C7: when there is no Primary record (the fetch failed, nothing came, or
\* every record is Derived) the run raises nothing and both aggregation
\* views have no rows and no columns.
C7_NoPrimaryGivesEmptyPivots ==
    (pc # "start" /\ response.kind # "none"
        /\ \A i \in 1..Len(Fetched) : HasType(i) /\ i \notin PrimaryAt) =>
        /\ pc # "crashed"
        /\ \A k \in 1..Len(rendered) : IsEmptyPivot(rendered[k])
        /\ pc = "done" => Len(rendered) = 2

AggregationStep == pc \in {"filtered", "aggregated", "chart1"}

TableUnchanged ==
    AggregationStep =>
        (df' = df /\ data' = data /\ Prefix(rendered, rendered'))

RecordsUnchanged ==
    AggregationStep =>
        (/\ df'.rows = df.rows
         /\ Len(df'.columns) = Len(df.columns)
         /\ data' = data
         /\ Prefix(rendered, rendered'))

\* C8 as stated: an aggregation step (lines 80-93, 108-132, 144-186) leaves
\* the filtered table as it was, labels included, leaves the fetched table
\* as it was, and leaves every pivot table already rendered as it was.
C8_AggregationLeavesTableUnchanged == [][TableUnchanged]_vars

\* C8 as amended: an aggregation step leaves the records and values of the
\* filtered table, the fetched table and every pivot table already rendered
\* as they were; it may relabel the columns of the filtered table, which all
\* steps share.
C8_AggregationLeavesRecordsUnchanged == [][RecordsUnchanged]_vars

C8_Witness ==
    /\ pc = "chart2"
    /\ Len(rendered) = 2
    /\ rendered[1] # rendered[2]
    /\ Len(df.rows) = 2
    /\ HasCol(df, "Status")
    /\ HasCol(data, "status")

\* C9 as stated: every get_data call has issued its own HTTP GET.
C9_EveryCallFetches ==
    pc # "start" => gets = runs

Returned == pc \in {"fetched", "filtered", "aggregated", "chart1", "chart2", "done"}

ServedFromCache ==
    Returned => (cache.hit /\ data = cache.value /\ data = get_data(response).value)

NoFetchOnceCached ==
    cache.hit => (gets' = gets /\ cache' = cache /\ response' = response)

\* C9 as amended: a get_data call issues an HTTP GET only while no earlier
\* call of the process has returned; from then on every call returns the
\* table that call built (the empty table of a failed fetch included) and
\* issues no GET.
C9_FetchedOncePerProcess == []ServedFromCache /\ [][NoFetchOnceCached]_vars

C9_Witness ==
    /\ runs = 2
    /\ pc = "fetched"
    /\ gets = 1
    /\ response.kind = "http_error"
    /\ data = EmptyDataFrame

\* C10: when a fetched record lacks dataset_type, the get_data call ends in
\* an uncaught exception raised by the classification; it does not return
\* the empty table of a failed fetch.
C10_MissingTypeRaises ==
    (pc # "start" /\ response.kind = "ok" /\ \E i \in 1..Len(Fetched) : ~HasType(i)) =>
        /\ pc = "crashed"
        /\ error.line = 36

====
